---- MODULE Spec2Model ----
(***************************************************************************)
(* The plugin contract of hyper-mcp as its two plugins implement it:       *)
(* rstime (examples/plugins/v2/rstime/src/lib.rs) and the wrapper plugin   *)
(* (tests/integrations/wrapper-plugin/src/lib.rs).                         *)
(*                                                                         *)
(* A plugin is stateless.  The host puts one request in flight (Submit),   *)
(* the entry point that the request names runs to completion and leaves    *)
(* its outcome in `response`.  Strings are TLA+ strings; a Rust            *)
(* Option<T> is None or Some(v); a Result<T, E> is Ok(v) or Err(e); a      *)
(* panic (unwrap on None) is the outcome Panic.                            *)
(***************************************************************************)
EXTENDS Integers, Sequences, FiniteSets, TLC

VARIABLES
  request,    \* the request in flight, with the entry point it is for
  response,   \* Pending while the entry point has not run, else its outcome
  hostCalls,  \* the host call_tool invocations made while serving `request`
  fetches     \* the HTTP requests made while serving `request`

vars == <<request, response, hostCalls, fetches>>

(***************************************************************************)
(* Rust's Option and Result, and serde_json::Value.                        *)
(***************************************************************************)
None == [some |-> FALSE]

Some(x) == [some |-> TRUE, v |-> x]

Ok(x) == [tag |-> "Ok", v |-> x]

Err(msg) == [tag |-> "Err", e |-> msg]

Panic == [tag |-> "Panic"]

Pending == [tag |-> "Pending"]

JNull == [t |-> "Null"]

JBool(x) == [t |-> "Bool", b |-> x]

JNumber(x) == [t |-> "Number", n |-> x]

JString(x) == [t |-> "String", s |-> x]

\* serde_json::Map::new(): the map with no key.
EmptyMap == <<>>

\* Map::get: the value under key k, if any.
Get(m, k) == IF k \in DOMAIN m THEN Some(m[k]) ELSE None

\* Value::as_str: the string of a String value, None for any other value.
AsStr(x) == IF x.t = "String" THEN Some(x.s) ELSE None

\* m.get(k).and_then(|v| v.as_str()): the string under key k, if there is one.
GetStr(m, k) == IF Get(m, k).some THEN AsStr(Get(m, k).v) ELSE None

(***************************************************************************)
(* str operations.                                                         *)
(***************************************************************************)
UpperCase == "ABCDEFGHIJKLMNOPQRSTUVWXYZ"

LowerCase == "abcdefghijklmnopqrstuvwxyz"

CharAt(s, i) == SubSeq(s, i, i)

\* u8::to_ascii_lowercase: only A..Z change.
CharToAsciiLowercase(c) ==
  IF \E i \in 1..Len(UpperCase) : CharAt(UpperCase, i) = c
  THEN CharAt(LowerCase, CHOOSE i \in 1..Len(UpperCase) : CharAt(UpperCase, i) = c)
  ELSE c

\* str::to_ascii_lowercase, from the i-th character on.
RECURSIVE ToAsciiLowercaseFrom(_, _)
ToAsciiLowercaseFrom(s, i) ==
  IF i > Len(s) THEN ""
  ELSE CharToAsciiLowercase(CharAt(s, i)) \o ToAsciiLowercaseFrom(s, i + 1)

ToAsciiLowercase(s) == ToAsciiLowercaseFrom(s, 1)

\* str::replace(from, to) for a pattern of one character, from the i-th character on.
RECURSIVE ReplaceFrom(_, _, _, _)
ReplaceFrom(s, i, from, to) ==
  IF i > Len(s) THEN ""
  ELSE (IF CharAt(s, i) = from THEN to ELSE CharAt(s, i)) \o ReplaceFrom(s, i + 1, from, to)

Replace(s, from, to) == ReplaceFrom(s, 1, from, to)

\* Contains with the needle looked for at the start only.
ContainsAsPrefix(hay, needle) ==
  Len(needle) <= Len(hay) /\ SubSeq(hay, 1, Len(needle)) = needle

\* str::contains(&needle)
Contains(hay, needle) ==
  \E i \in 0..(Len(hay) - Len(needle)) : SubSeq(hay, i + 1, i + Len(needle)) = needle

\* str::starts_with(prefix)
StartsWith(s, prefix) ==
  Len(prefix) <= Len(s) /\ SubSeq(s, 1, Len(prefix)) = prefix

(***************************************************************************)
(* chrono_tz::TZ_VARIANTS: the time zones the tz database names, in the    *)
(* order of the crate's enum (the names in byte order); tz.name() is the   *)
(* entry itself.                                                           *)
(***************************************************************************)
TZ_VARIANTS ==
  <<
    "Africa/Abidjan", "Africa/Accra", "Africa/Addis_Ababa", "Africa/Algiers", "Africa/Asmara",
    "Africa/Asmera", "Africa/Bamako", "Africa/Bangui", "Africa/Banjul", "Africa/Bissau",
    "Africa/Blantyre", "Africa/Brazzaville", "Africa/Bujumbura", "Africa/Cairo",
    "Africa/Casablanca", "Africa/Ceuta", "Africa/Conakry", "Africa/Dakar",
    "Africa/Dar_es_Salaam", "Africa/Djibouti", "Africa/Douala", "Africa/El_Aaiun",
    "Africa/Freetown", "Africa/Gaborone", "Africa/Harare", "Africa/Johannesburg",
    "Africa/Juba", "Africa/Kampala", "Africa/Khartoum", "Africa/Kigali", "Africa/Kinshasa",
    "Africa/Lagos", "Africa/Libreville", "Africa/Lome", "Africa/Luanda", "Africa/Lubumbashi",
    "Africa/Lusaka", "Africa/Malabo", "Africa/Maputo", "Africa/Maseru", "Africa/Mbabane",
    "Africa/Mogadishu", "Africa/Monrovia", "Africa/Nairobi", "Africa/Ndjamena",
    "Africa/Niamey", "Africa/Nouakchott", "Africa/Ouagadougou", "Africa/Porto-Novo",
    "Africa/Sao_Tome", "Africa/Timbuktu", "Africa/Tripoli", "Africa/Tunis", "Africa/Windhoek",
    "America/Adak", "America/Anchorage", "America/Anguilla", "America/Antigua",
    "America/Araguaina", "America/Argentina/Buenos_Aires", "America/Argentina/Catamarca",
    "America/Argentina/ComodRivadavia", "America/Argentina/Cordoba", "America/Argentina/Jujuy",
    "America/Argentina/La_Rioja", "America/Argentina/Mendoza",
    "America/Argentina/Rio_Gallegos", "America/Argentina/Salta", "America/Argentina/San_Juan",
    "America/Argentina/San_Luis", "America/Argentina/Tucuman", "America/Argentina/Ushuaia",
    "America/Aruba", "America/Asuncion", "America/Atikokan", "America/Atka", "America/Bahia",
    "America/Bahia_Banderas", "America/Barbados", "America/Belem", "America/Belize",
    "America/Blanc-Sablon", "America/Boa_Vista", "America/Bogota", "America/Boise",
    "America/Buenos_Aires", "America/Cambridge_Bay", "America/Campo_Grande", "America/Cancun",
    "America/Caracas", "America/Catamarca", "America/Cayenne", "America/Cayman",
    "America/Chicago", "America/Chihuahua", "America/Ciudad_Juarez", "America/Coral_Harbour",
    "America/Cordoba", "America/Costa_Rica", "America/Creston", "America/Cuiaba",
    "America/Curacao", "America/Danmarkshavn", "America/Dawson", "America/Dawson_Creek",
    "America/Denver", "America/Detroit", "America/Dominica", "America/Edmonton",
    "America/Eirunepe", "America/El_Salvador", "America/Ensenada", "America/Fort_Nelson",
    "America/Fort_Wayne", "America/Fortaleza", "America/Glace_Bay", "America/Godthab",
    "America/Goose_Bay", "America/Grand_Turk", "America/Grenada", "America/Guadeloupe",
    "America/Guatemala", "America/Guayaquil", "America/Guyana", "America/Halifax",
    "America/Havana", "America/Hermosillo", "America/Indiana/Indianapolis",
    "America/Indiana/Knox", "America/Indiana/Marengo", "America/Indiana/Petersburg",
    "America/Indiana/Tell_City", "America/Indiana/Vevay", "America/Indiana/Vincennes",
    "America/Indiana/Winamac", "America/Indianapolis", "America/Inuvik", "America/Iqaluit",
    "America/Jamaica", "America/Jujuy", "America/Juneau", "America/Kentucky/Louisville",
    "America/Kentucky/Monticello", "America/Knox_IN", "America/Kralendijk", "America/La_Paz",
    "America/Lima", "America/Los_Angeles", "America/Louisville", "America/Lower_Princes",
    "America/Maceio", "America/Managua", "America/Manaus", "America/Marigot",
    "America/Martinique", "America/Matamoros", "America/Mazatlan", "America/Mendoza",
    "America/Menominee", "America/Merida", "America/Metlakatla", "America/Mexico_City",
    "America/Miquelon", "America/Moncton", "America/Monterrey", "America/Montevideo",
    "America/Montreal", "America/Montserrat", "America/Nassau", "America/New_York",
    "America/Nipigon", "America/Nome", "America/Noronha", "America/North_Dakota/Beulah",
    "America/North_Dakota/Center", "America/North_Dakota/New_Salem", "America/Nuuk",
    "America/Ojinaga", "America/Panama", "America/Pangnirtung", "America/Paramaribo",
    "America/Phoenix", "America/Port-au-Prince", "America/Port_of_Spain", "America/Porto_Acre",
    "America/Porto_Velho", "America/Puerto_Rico", "America/Punta_Arenas",
    "America/Rainy_River", "America/Rankin_Inlet", "America/Recife", "America/Regina",
    "America/Resolute", "America/Rio_Branco", "America/Rosario", "America/Santa_Isabel",
    "America/Santarem", "America/Santiago", "America/Santo_Domingo", "America/Sao_Paulo",
    "America/Scoresbysund", "America/Shiprock", "America/Sitka", "America/St_Barthelemy",
    "America/St_Johns", "America/St_Kitts", "America/St_Lucia", "America/St_Thomas",
    "America/St_Vincent", "America/Swift_Current", "America/Tegucigalpa", "America/Thule",
    "America/Thunder_Bay", "America/Tijuana", "America/Toronto", "America/Tortola",
    "America/Vancouver", "America/Virgin", "America/Whitehorse", "America/Winnipeg",
    "America/Yakutat", "America/Yellowknife", "Antarctica/Casey", "Antarctica/Davis",
    "Antarctica/DumontDUrville", "Antarctica/Macquarie", "Antarctica/Mawson",
    "Antarctica/McMurdo", "Antarctica/Palmer", "Antarctica/Rothera", "Antarctica/South_Pole",
    "Antarctica/Syowa", "Antarctica/Troll", "Antarctica/Vostok", "Arctic/Longyearbyen",
    "Asia/Aden", "Asia/Almaty", "Asia/Amman", "Asia/Anadyr", "Asia/Aqtau", "Asia/Aqtobe",
    "Asia/Ashgabat", "Asia/Ashkhabad", "Asia/Atyrau", "Asia/Baghdad", "Asia/Bahrain",
    "Asia/Baku", "Asia/Bangkok", "Asia/Barnaul", "Asia/Beirut", "Asia/Bishkek", "Asia/Brunei",
    "Asia/Calcutta", "Asia/Chita", "Asia/Choibalsan", "Asia/Chongqing", "Asia/Chungking",
    "Asia/Colombo", "Asia/Dacca", "Asia/Damascus", "Asia/Dhaka", "Asia/Dili", "Asia/Dubai",
    "Asia/Dushanbe", "Asia/Famagusta", "Asia/Gaza", "Asia/Harbin", "Asia/Hebron",
    "Asia/Ho_Chi_Minh", "Asia/Hong_Kong", "Asia/Hovd", "Asia/Irkutsk", "Asia/Istanbul",
    "Asia/Jakarta", "Asia/Jayapura", "Asia/Jerusalem", "Asia/Kabul", "Asia/Kamchatka",
    "Asia/Karachi", "Asia/Kashgar", "Asia/Kathmandu", "Asia/Katmandu", "Asia/Khandyga",
    "Asia/Kolkata", "Asia/Krasnoyarsk", "Asia/Kuala_Lumpur", "Asia/Kuching", "Asia/Kuwait",
    "Asia/Macao", "Asia/Macau", "Asia/Magadan", "Asia/Makassar", "Asia/Manila", "Asia/Muscat",
    "Asia/Nicosia", "Asia/Novokuznetsk", "Asia/Novosibirsk", "Asia/Omsk", "Asia/Oral",
    "Asia/Phnom_Penh", "Asia/Pontianak", "Asia/Pyongyang", "Asia/Qatar", "Asia/Qostanay",
    "Asia/Qyzylorda", "Asia/Rangoon", "Asia/Riyadh", "Asia/Saigon", "Asia/Sakhalin",
    "Asia/Samarkand", "Asia/Seoul", "Asia/Shanghai", "Asia/Singapore", "Asia/Srednekolymsk",
    "Asia/Taipei", "Asia/Tashkent", "Asia/Tbilisi", "Asia/Tehran", "Asia/Tel_Aviv",
    "Asia/Thimbu", "Asia/Thimphu", "Asia/Tokyo", "Asia/Tomsk", "Asia/Ujung_Pandang",
    "Asia/Ulaanbaatar", "Asia/Ulan_Bator", "Asia/Urumqi", "Asia/Ust-Nera", "Asia/Vientiane",
    "Asia/Vladivostok", "Asia/Yakutsk", "Asia/Yangon", "Asia/Yekaterinburg", "Asia/Yerevan",
    "Atlantic/Azores", "Atlantic/Bermuda", "Atlantic/Canary", "Atlantic/Cape_Verde",
    "Atlantic/Faeroe", "Atlantic/Faroe", "Atlantic/Jan_Mayen", "Atlantic/Madeira",
    "Atlantic/Reykjavik", "Atlantic/South_Georgia", "Atlantic/St_Helena", "Atlantic/Stanley",
    "Australia/ACT", "Australia/Adelaide", "Australia/Brisbane", "Australia/Broken_Hill",
    "Australia/Canberra", "Australia/Currie", "Australia/Darwin", "Australia/Eucla",
    "Australia/Hobart", "Australia/LHI", "Australia/Lindeman", "Australia/Lord_Howe",
    "Australia/Melbourne", "Australia/NSW", "Australia/North", "Australia/Perth",
    "Australia/Queensland", "Australia/South", "Australia/Sydney", "Australia/Tasmania",
    "Australia/Victoria", "Australia/West", "Australia/Yancowinna", "Brazil/Acre",
    "Brazil/DeNoronha", "Brazil/East", "Brazil/West", "CET", "CST6CDT", "Canada/Atlantic",
    "Canada/Central", "Canada/Eastern", "Canada/Mountain", "Canada/Newfoundland",
    "Canada/Pacific", "Canada/Saskatchewan", "Canada/Yukon", "Chile/Continental",
    "Chile/EasterIsland", "Cuba", "EET", "EST", "EST5EDT", "Egypt", "Eire", "Etc/GMT",
    "Etc/GMT+0", "Etc/GMT+1", "Etc/GMT+10", "Etc/GMT+11", "Etc/GMT+12", "Etc/GMT+2",
    "Etc/GMT+3", "Etc/GMT+4", "Etc/GMT+5", "Etc/GMT+6", "Etc/GMT+7", "Etc/GMT+8", "Etc/GMT+9",
    "Etc/GMT-0", "Etc/GMT-1", "Etc/GMT-10", "Etc/GMT-11", "Etc/GMT-12", "Etc/GMT-13",
    "Etc/GMT-14", "Etc/GMT-2", "Etc/GMT-3", "Etc/GMT-4", "Etc/GMT-5", "Etc/GMT-6", "Etc/GMT-7",
    "Etc/GMT-8", "Etc/GMT-9", "Etc/GMT0", "Etc/Greenwich", "Etc/UCT", "Etc/UTC",
    "Etc/Universal", "Etc/Zulu", "Europe/Amsterdam", "Europe/Andorra", "Europe/Astrakhan",
    "Europe/Athens", "Europe/Belfast", "Europe/Belgrade", "Europe/Berlin", "Europe/Bratislava",
    "Europe/Brussels", "Europe/Bucharest", "Europe/Budapest", "Europe/Busingen",
    "Europe/Chisinau", "Europe/Copenhagen", "Europe/Dublin", "Europe/Gibraltar",
    "Europe/Guernsey", "Europe/Helsinki", "Europe/Isle_of_Man", "Europe/Istanbul",
    "Europe/Jersey", "Europe/Kaliningrad", "Europe/Kiev", "Europe/Kirov", "Europe/Kyiv",
    "Europe/Lisbon", "Europe/Ljubljana", "Europe/London", "Europe/Luxembourg", "Europe/Madrid",
    "Europe/Malta", "Europe/Mariehamn", "Europe/Minsk", "Europe/Monaco", "Europe/Moscow",
    "Europe/Nicosia", "Europe/Oslo", "Europe/Paris", "Europe/Podgorica", "Europe/Prague",
    "Europe/Riga", "Europe/Rome", "Europe/Samara", "Europe/San_Marino", "Europe/Sarajevo",
    "Europe/Saratov", "Europe/Simferopol", "Europe/Skopje", "Europe/Sofia", "Europe/Stockholm",
    "Europe/Tallinn", "Europe/Tirane", "Europe/Tiraspol", "Europe/Ulyanovsk",
    "Europe/Uzhgorod", "Europe/Vaduz", "Europe/Vatican", "Europe/Vienna", "Europe/Vilnius",
    "Europe/Volgograd", "Europe/Warsaw", "Europe/Zagreb", "Europe/Zaporozhye", "Europe/Zurich",
    "GB", "GB-Eire", "GMT", "GMT+0", "GMT-0", "GMT0", "Greenwich", "HST", "Hongkong",
    "Iceland", "Indian/Antananarivo", "Indian/Chagos", "Indian/Christmas", "Indian/Cocos",
    "Indian/Comoro", "Indian/Kerguelen", "Indian/Mahe", "Indian/Maldives", "Indian/Mauritius",
    "Indian/Mayotte", "Indian/Reunion", "Iran", "Israel", "Jamaica", "Japan", "Kwajalein",
    "Libya", "MET", "MST", "MST7MDT", "Mexico/BajaNorte", "Mexico/BajaSur", "Mexico/General",
    "NZ", "NZ-CHAT", "Navajo", "PRC", "PST8PDT", "Pacific/Apia", "Pacific/Auckland",
    "Pacific/Bougainville", "Pacific/Chatham", "Pacific/Chuuk", "Pacific/Easter",
    "Pacific/Efate", "Pacific/Enderbury", "Pacific/Fakaofo", "Pacific/Fiji",
    "Pacific/Funafuti", "Pacific/Galapagos", "Pacific/Gambier", "Pacific/Guadalcanal",
    "Pacific/Guam", "Pacific/Honolulu", "Pacific/Johnston", "Pacific/Kanton",
    "Pacific/Kiritimati", "Pacific/Kosrae", "Pacific/Kwajalein", "Pacific/Majuro",
    "Pacific/Marquesas", "Pacific/Midway", "Pacific/Nauru", "Pacific/Niue", "Pacific/Norfolk",
    "Pacific/Noumea", "Pacific/Pago_Pago", "Pacific/Palau", "Pacific/Pitcairn",
    "Pacific/Pohnpei", "Pacific/Ponape", "Pacific/Port_Moresby", "Pacific/Rarotonga",
    "Pacific/Saipan", "Pacific/Samoa", "Pacific/Tahiti", "Pacific/Tarawa", "Pacific/Tongatapu",
    "Pacific/Truk", "Pacific/Wake", "Pacific/Wallis", "Pacific/Yap", "Poland", "Portugal",
    "ROC", "ROK", "Singapore", "Turkey", "UCT", "US/Alaska", "US/Aleutian", "US/Arizona",
    "US/Central", "US/East-Indiana", "US/Eastern", "US/Hawaii", "US/Indiana-Starke",
    "US/Michigan", "US/Mountain", "US/Pacific", "US/Samoa", "UTC", "Universal", "W-SU", "WET",
    "Zulu"
  >>

\* The literal 100 of complete: at most this many suggestions are returned.
Cap == 100

\* timezone.parse::<chrono_tz::Tz>(): the zone of that exact name, or a parse
\* error.  A Tz is represented by its name.
TzParse(s) ==
  IF \E i \in 1..Len(TZ_VARIANTS) : TZ_VARIANTS[i] = s
  THEN Ok(s)
  ELSE Err("failed to parse timezone")

(***************************************************************************)
(* The generated reference types (pdk::types), deserialized by serde from  *)
(* the whole reference map: a PromptReference has a name and an optional   *)
(* title, a ResourceTemplateReference has a uri; both carry their type     *)
(* tag.  Keys the type does not know are ignored.                          *)
(***************************************************************************)
\* PromptReferenceFromValue with the title left out of what is read.
PromptReferenceFromValueNoTitle(value) ==
  LET name == Get(value, "name")
      type == Get(value, "type")
  IN  IF ~type.some THEN Err("missing field type")
      ELSE IF type.v # JString("prompt") THEN Err("unknown variant, expected prompt")
      ELSE IF ~name.some THEN Err("missing field name")
      ELSE IF name.v.t # "String" THEN Err("invalid type, expected a string")
      ELSE Ok([name |-> name.v.s, title |-> None, type |-> "prompt"])

PromptReferenceFromValue(value) ==
  LET name == Get(value, "name")
      title == Get(value, "title")
      type == Get(value, "type")
  IN  IF ~type.some THEN Err("missing field type")
      ELSE IF type.v # JString("prompt") THEN Err("unknown variant, expected prompt")
      ELSE IF ~name.some THEN Err("missing field name")
      ELSE IF name.v.t # "String" THEN Err("invalid type, expected a string")
      ELSE IF title.some /\ title.v.t \notin {"String", "Null"}
           THEN Err("invalid type, expected a string")
      ELSE Ok([name |-> name.v.s,
               title |-> IF title.some /\ title.v.t = "String"
                         THEN Some(title.v.s) ELSE None,
               type |-> "prompt"])

ResourceTemplateReferenceFromValue(value) ==
  LET uri == Get(value, "uri")
      type == Get(value, "type")
  IN  IF ~type.some THEN Err("missing field type")
      ELSE IF type.v # JString("resource") THEN Err("unknown variant, expected resource")
      ELSE IF ~uri.some THEN Err("missing field uri")
      ELSE IF uri.v.t # "String" THEN Err("invalid type, expected a string")
      ELSE Ok([type |-> "resource", uri |-> uri.v.s])

\* serde_json::to_value(&prompt_ref): the map of a PromptReference.  A title
\* of None is written as null, or left out when skip_none is set (the
\* generated type decides which; both are read back as None).
PromptReferenceToValue(prompt_ref, skip_none) ==
  [k \in {"name", "type"} \cup (IF ~prompt_ref.title.some /\ skip_none THEN {} ELSE {"title"}) |->
     CASE k = "name" -> JString(prompt_ref.name)
       [] k = "type" -> JString(prompt_ref.type)
       [] k = "title" -> IF prompt_ref.title.some THEN JString(prompt_ref.title.v) ELSE JNull]

\* serde_json::to_value(&resource_ref): the map of a ResourceTemplateReference.
ResourceTemplateReferenceToValue(resource_ref) ==
  [k \in {"type", "uri"} |->
     IF k = "type" THEN JString(resource_ref.type) ELSE JString(resource_ref.uri)]

(***************************************************************************)
(* enum AnyReference and its TryFrom<Map<String, Value>>.                  *)
(***************************************************************************)
AnyReferencePrompt(prompt_ref) == [variant |-> "Prompt", ref |-> prompt_ref]

AnyReferenceResource(resource_ref) == [variant |-> "Resource", ref |-> resource_ref]

\* TypeValue with the variant guessed from the fields when there is no type tag.
TypeValueByShape(value) ==
  IF GetStr(value, "type").some THEN GetStr(value, "type")
  ELSE IF "name" \in DOMAIN value THEN Some("prompt")
  ELSE IF "uri" \in DOMAIN value THEN Some("resource")
  ELSE None

\* The discriminant: value.get("type").and_then(|v| v.as_str()).
TypeValue(value) == GetStr(value, "type")

\* MatchTypeValue with the two arms taking each other's type.
MatchTypeValueSwapped(type_value, value) ==
  CASE type_value = "prompt" ->
         LET resource_ref == ResourceTemplateReferenceFromValue(value)
         IN  IF resource_ref.tag = "Ok"
             THEN Ok(AnyReferenceResource(resource_ref.v))
             ELSE resource_ref
    [] type_value = "resource" ->
         LET prompt_ref == PromptReferenceFromValue(value)
         IN  IF prompt_ref.tag = "Ok"
             THEN Ok(AnyReferencePrompt(prompt_ref.v))
             ELSE prompt_ref
    [] OTHER -> Err("Unknown reference type: " \o type_value)

\* MatchTypeValue with the discriminant compared without regard to case.
MatchTypeValueIgnoreCase(type_value, value) ==
  CASE ToAsciiLowercase(type_value) = "prompt" ->
         LET prompt_ref == PromptReferenceFromValue(value)
         IN  IF prompt_ref.tag = "Ok"
             THEN Ok(AnyReferencePrompt(prompt_ref.v))
             ELSE prompt_ref
    [] ToAsciiLowercase(type_value) = "resource" ->
         LET resource_ref == ResourceTemplateReferenceFromValue(value)
         IN  IF resource_ref.tag = "Ok"
             THEN Ok(AnyReferenceResource(resource_ref.v))
             ELSE resource_ref
    [] OTHER -> Err("Unknown reference type: " \o type_value)

\* The match on the discriminant; a deserialization error is passed on by the ? operator.
MatchTypeValue(type_value, value) ==
  CASE type_value = "prompt" ->
         LET prompt_ref == PromptReferenceFromValue(value)
         IN  IF prompt_ref.tag = "Ok"
             THEN Ok(AnyReferencePrompt(prompt_ref.v))
             ELSE prompt_ref
    [] type_value = "resource" ->
         LET resource_ref == ResourceTemplateReferenceFromValue(value)
         IN  IF resource_ref.tag = "Ok"
             THEN Ok(AnyReferenceResource(resource_ref.v))
             ELSE resource_ref
    [] OTHER -> Err("Unknown reference type: " \o type_value)

try_from(value) ==
  LET type_value == TypeValue(value)
  IN  IF ~type_value.some
      THEN Err("Missing or invalid 'type' field in reference")
      ELSE MatchTypeValue(type_value.v, value)

(***************************************************************************)
(* complete.                                                               *)
(***************************************************************************)
PromptName == "get_time_with_timezone"

UriTemplate == "https://www.timezoneconverter.com/cgi-bin/zoneinfo?tz={timezone}"

\* Query with the spaces kept.
QueryKeepSpaces(value) == ToAsciiLowercase(value)

\* The query the candidates are searched for.
Query(value) == Replace(ToAsciiLowercase(value), " ", "_")

\* tz.name().to_ascii_lowercase() of every zone, by its place in TZ_VARIANTS.
LowercaseNames == [i \in 1..Len(TZ_VARIANTS) |-> ToAsciiLowercase(TZ_VARIANTS[i])]

\* Matches with the empty query matching nothing.
MatchesNonEmpty(i, query) == query # "" /\ Contains(LowercaseNames[i], query)

\* Whether the i-th zone is a match of the query.
Matches(i, query) == Contains(LowercaseNames[i], query)

\* PushSuggestion without the test of the length.
PushSuggestionUncapped(suggestions, tz) == Append(suggestions, tz)

\* A match is kept while fewer than 100 are.
PushSuggestion(suggestions, tz) ==
  IF Len(suggestions) < Cap THEN Append(suggestions, tz) ELSE suggestions

\* LoopBody with a match counted only when it is kept.
LoopBodyCountKept(i, query, acc) ==
  IF Matches(i, query) /\ Len(acc.suggestions) < Cap
  THEN [suggestions |-> Append(acc.suggestions, TZ_VARIANTS[i]), total |-> acc.total + 1]
  ELSE acc

\* One iteration of the loop: a match is counted, and kept if there is room.
LoopBody(i, query, acc) ==
  IF Matches(i, query)
  THEN [suggestions |-> PushSuggestion(acc.suggestions, TZ_VARIANTS[i]),
        total |-> acc.total + 1]
  ELSE acc

\* The iterations lo..hi of the loop over TZ_VARIANTS, in order, from the
\* suggestions and the total in acc.  The range is split in halves, and the
\* first half is evaluated before the second starts (its total, a count, is
\* never negative), to keep the evaluation shallow.
RECURSIVE CompleteLoop(_, _, _, _)
CompleteLoop(lo, hi, query, acc) ==
  IF lo > hi THEN acc
  ELSE IF lo = hi THEN LoopBody(lo, query, acc)
  ELSE LET mid == (lo + hi) \div 2
           first == CompleteLoop(lo, mid, query, acc)
       IN  IF first.total >= 0 THEN CompleteLoop(mid + 1, hi, query, first) ELSE first

\* HasMore that never tells of more.
HasMoreNever(total, suggestions) == FALSE

HasMore(total, suggestions) == total > Len(suggestions)

CompleteResult(found) ==
  [completion |-> [has_more |-> Some(HasMore(found.total, found.suggestions)),
                   total |-> Some(found.total),
                   values |-> found.suggestions]]

\* CompleteArgument with the name compared without regard to case.
CompleteArgumentIgnoreCase(argument) ==
  IF ToAsciiLowercase(argument.name) = "timezone"
  THEN Ok(CompleteResult(CompleteLoop(1, Len(TZ_VARIANTS), Query(argument.value),
                                  [suggestions |-> <<>>, total |-> 0])))
  ELSE Err("Completion for argument not implemented: " \o argument.name)

\* The match on the argument's name.
CompleteArgument(argument) ==
  IF argument.name = "timezone"
  THEN Ok(CompleteResult(CompleteLoop(1, Len(TZ_VARIANTS), Query(argument.value),
                                  [suggestions |-> <<>>, total |-> 0])))
  ELSE Err("Completion for argument not implemented: " \o argument.name)

complete(input) ==
  LET any_ref == try_from(input.ref)
  IN  IF any_ref.tag = "Err" THEN any_ref
      ELSE IF any_ref.v.variant = "Prompt" /\ any_ref.v.ref.name # PromptName
      THEN Err("Completion for prompt not implemented: " \o any_ref.v.ref.name)
      ELSE IF any_ref.v.variant = "Resource" /\ any_ref.v.ref.uri # UriTemplate
      THEN Err("Completion for resource not implemented: " \o any_ref.v.ref.uri)
      ELSE CompleteArgument(input.argument)

(***************************************************************************)
(* call_tool.  The clock, chrono's formatting and chrono's parser are      *)
(* collaborators: the instants the clock shows are the seconds Epoch ..    *)
(* Epoch + MaxNow, and a time is written and read in RFC 2822 for those    *)
(* instants and the zones of ZoneOffsets.                                  *)
(***************************************************************************)
\* 29 Nov 2024 10:30:00 +0000 in seconds since the Unix epoch.
Epoch == 1732876200

\* The last instant the clock shows is Epoch + MaxNow.
MaxNow == 1

Instants == Epoch..(Epoch + MaxNow)

\* The zones a time is formatted in, with the wall clock's offset at Epoch
\* written as chrono writes it.
ZoneOffsets ==
  [zone |-> {"UTC", "America/New_York"},
   clock |-> [z \in {"UTC", "America/New_York"} |->
                IF z = "UTC" THEN "10:30:" ELSE "05:30:"],
   offset |-> [z \in {"UTC", "America/New_York"} |->
                IF z = "UTC" THEN " +0000" ELSE " -0500"]]

TwoDigits(n) == IF n < 10 THEN "0" \o ToString(n) ELSE ToString(n)

\* chrono::Utc::now().with_timezone(&tz).to_rfc2822() at the instant now.
ToRfc2822(now, tz) ==
  "Fri, 29 Nov 2024 " \o ZoneOffsets.clock[tz] \o TwoDigits(now - Epoch)
    \o ZoneOffsets.offset[tz]

\* chrono::DateTime::parse_from_rfc2822: the instant a text names, or a
\* parse error.  The day of the week may be left out.
ParseFromRfc2822(time_str) ==
  IF \E now \in Instants, tz \in ZoneOffsets.zone :
       time_str \in {ToRfc2822(now, tz), SubSeq(ToRfc2822(now, tz), 6, Len(ToRfc2822(now, tz)))}
  THEN Ok(CHOOSE now \in Instants : \E tz \in ZoneOffsets.zone :
            time_str \in {ToRfc2822(now, tz),
                          SubSeq(ToRfc2822(now, tz), 6, Len(ToRfc2822(now, tz)))})
  ELSE IF time_str = "" THEN Err("premature end of input")
  ELSE Err("input contains invalid characters")

\* types::TextContent { text, ..Default::default() }.into(): a content block.
TextContent(text) == [type |-> "text", text |-> text]

\* types::CallToolResult::default()
CallToolResultDefault ==
  [content |-> <<>>, is_error |-> None, structured_content |-> None]

\* ErrorResult without its content block.
ErrorResultBare(text) == [CallToolResultDefault EXCEPT !.is_error = Some(TRUE)]

\* A result that reports a problem of the call: is_error is Some(true).
ErrorResult(text) ==
  [CallToolResultDefault EXCEPT !.content = <<TextContent(text)>>, !.is_error = Some(TRUE)]

\* StructuredResult with is_error set to Some(false).
StructuredResultFlagged(text, structured) ==
  [CallToolResultDefault EXCEPT !.content = <<TextContent(text)>>,
                                !.is_error = Some(FALSE),
                                !.structured_content = Some(structured)]

\* A result with its structured content: is_error keeps its default.
StructuredResult(text, structured) ==
  [CallToolResultDefault EXCEPT !.content = <<TextContent(text)>>,
                                !.structured_content = Some(structured)]

\* arguments.as_ref().and_then(|args| args.get(key)).and_then(|v| v.as_str())
StrArgument(arguments, key) ==
  IF arguments.some THEN GetStr(arguments.v, key) ELSE None

\* GetTime with a timezone that is no string refused, not taken for UTC.
GetTimeRefusingNonString(arguments, now) ==
  LET timezone == StrArgument(arguments, "timezone")
      given == arguments.some /\ Get(arguments.v, "timezone").some
      tz == IF timezone.some THEN TzParse(timezone.v) ELSE Ok("UTC")
  IN  IF given /\ ~timezone.some
      THEN Ok(ErrorResult("Error: Invalid timezone"))
      ELSE IF tz.tag = "Err"
      THEN Ok(ErrorResult("Error: Invalid timezone '" \o timezone.v \o "': " \o tz.e))
      ELSE LET current_time == ToRfc2822(now, tz.v)
           IN  Ok(StructuredResult(current_time, [current_time |-> JString(current_time)]))

GetTime(arguments, now) ==
  LET timezone == StrArgument(arguments, "timezone")
      tz == IF timezone.some THEN TzParse(timezone.v) ELSE Ok("UTC")
  IN  IF tz.tag = "Err"
      THEN Ok(ErrorResult("Error: Invalid timezone '" \o timezone.v \o "': " \o tz.e))
      ELSE LET current_time == ToRfc2822(now, tz.v)
           IN  Ok(StructuredResult(current_time, [current_time |-> JString(current_time)]))

ParseTime(arguments) ==
  LET time_str == StrArgument(arguments, "time")
  IN  IF ~time_str.some
      THEN Ok(ErrorResult("Error: 'time' argument is required"))
      ELSE LET dt == ParseFromRfc2822(time_str.v)
           IN  IF dt.tag = "Ok"
               THEN Ok(StructuredResult(ToString(dt.v), [timestamp |-> JNumber(dt.v)]))
               ELSE Ok(ErrorResult("Error parsing time: " \o dt.e))

\* call_tool with the last arm answering in band.
CallToolSoftUnknown(input, now) ==
  CASE input.name = "get_time" -> GetTime(input.arguments, now)
    [] input.name = "parse_time" -> ParseTime(input.arguments)
    [] OTHER -> Ok(ErrorResult("Unknown tool: " \o input.name))

\* call_tool with one more name routed to get_time.
CallToolWithAlias(input, now) ==
  CASE input.name \in {"get_time", "get_time_utc"} -> GetTime(input.arguments, now)
    [] input.name = "parse_time" -> ParseTime(input.arguments)
    [] OTHER -> Err("Unknown tool: " \o input.name)

call_tool(input, now) ==
  CASE input.name = "get_time" -> GetTime(input.arguments, now)
    [] input.name = "parse_time" -> ParseTime(input.arguments)
    [] OTHER -> Err("Unknown tool: " \o input.name)

(***************************************************************************)
(* get_prompt.                                                             *)
(***************************************************************************)
PromptMessage(text) == [role |-> "assistant", content |-> TextContent(text)]

\* types::GetPromptResult::default()
GetPromptResultDefault == [description |-> None, messages |-> <<>>]

GetTimeWithTimezone(arguments) ==
  LET timezone == StrArgument(arguments, "timezone")
      tz == IF timezone.some THEN TzParse(timezone.v) ELSE Ok("UTC")
  IN  IF tz.tag = "Err"
      THEN Ok([GetPromptResultDefault EXCEPT
                 !.messages = <<PromptMessage("Error: Invalid timezone '" \o timezone.v
                                               \o "': " \o tz.e)>>])
      ELSE Ok([description |-> Some("Information for " \o tz.v),
               messages |-> <<PromptMessage("Please get the time for the timezone " \o tz.v)>>])

\* get_prompt with the name compared without regard to case.
GetPromptIgnoreCase(input) ==
  CASE ToAsciiLowercase(input.name) = PromptName -> GetTimeWithTimezone(input.arguments)
    [] OTHER -> Err("Prompt not found: " \o input.name)

get_prompt(input) ==
  CASE input.name = PromptName -> GetTimeWithTimezone(input.arguments)
    [] OTHER -> Err("Prompt not found: " \o input.name)

(***************************************************************************)
(* The catalog: list_prompts, list_resource_templates, list_resources,     *)
(* list_tools.  The descriptions are left out; a schema is the set of its  *)
(* properties and the sequence of the required ones.                       *)
(***************************************************************************)
list_prompts ==
  Ok([prompts |-> <<[name |-> PromptName,
                     title |-> Some("Get Localized Time"),
                     arguments |-> Some(<<[name |-> "timezone", title |-> Some("Timezone"),
                                            required |-> None]>>)]>>])

list_resource_templates ==
  Ok([resource_templates |-> <<[name |-> "time_zone_converter",
                                mime_type |-> Some("text/html"),
                                uri_template |-> UriTemplate,
                                title |-> Some("TimeZone Converter")]>>,
      next_cursor |-> None])

list_resources == Ok([resources |-> <<>>, next_cursor |-> None])

\* list_tools with the two tools in the other order.
ListToolsParseTimeFirst ==
  Ok([tools |-> <<[name |-> "parse_time",
                   title |-> Some("Parse Time from RFC2822"),
                   input_schema |-> [properties |-> Some({"time"}),
                                     required |-> Some(<<"time">>)],
                   output_schema |-> Some([properties |-> Some({"timestamp"}),
                                           required |-> Some(<<"timestamp">>)])],
                  [name |-> "get_time",
                   title |-> Some("Get Current Time"),
                   input_schema |-> [properties |-> Some({"timezone"}), required |-> None],
                   output_schema |-> Some([properties |-> Some({"current_time"}),
                                           required |-> Some(<<"current_time">>)])]>>])

list_tools ==
  Ok([tools |-> <<[name |-> "get_time",
                   title |-> Some("Get Current Time"),
                   input_schema |-> [properties |-> Some({"timezone"}), required |-> None],
                   output_schema |-> Some([properties |-> Some({"current_time"}),
                                           required |-> Some(<<"current_time">>)])],
                  [name |-> "parse_time",
                   title |-> Some("Parse Time from RFC2822"),
                   input_schema |-> [properties |-> Some({"time"}),
                                     required |-> Some(<<"time">>)],
                   output_schema |-> Some([properties |-> Some({"timestamp"}),
                                           required |-> Some(<<"timestamp">>)])]>>])

on_roots_list_changed == Ok("()")

(***************************************************************************)
(* read_resource.  The HTTP request is a collaborator: it answers with a   *)
(* status and a body, or fails.                                            *)
(***************************************************************************)
UriPrefix == "https://www.timezoneconverter.com/cgi-bin/zoneinfo?tz="

\* base64 STANDARD.encode of a body, for the bodies of Bodies.
Bodies == {"", "UTC", "<html>"}

Base64Encode(body) ==
  CASE body = "" -> ""
    [] body = "UTC" -> "VVRD"
    [] body = "<html>" -> "PGh0bWw+"

BlobResourceContents(uri, blob) ==
  [blob |-> blob, mime_type |-> Some("text/html"), uri |-> uri]

\* The uri of a TextResourceContents keeps its default, the empty string.
TextResourceContents(text) ==
  [text |-> text, mime_type |-> Some("text/plain"), uri |-> ""]

\* ReadFetched with a failure of the request passed on to the caller.
ReadFetchedRaising(uri, fetched) ==
  IF fetched.tag = "Ok"
  THEN IF fetched.v.status_code >= 200 /\ fetched.v.status_code < 300
       THEN Ok([contents |-> <<BlobResourceContents(uri, Base64Encode(fetched.v.body))>>])
       ELSE Ok([contents |-> <<TextResourceContents(
                  "Error fetching resource: HTTP " \o ToString(fetched.v.status_code))>>])
  ELSE fetched

\* ReadFetched with the status 300 taken for a success.
ReadFetchedThrough300(uri, fetched) ==
  IF fetched.tag = "Ok"
  THEN IF fetched.v.status_code >= 200 /\ fetched.v.status_code <= 300
       THEN Ok([contents |-> <<BlobResourceContents(uri, Base64Encode(fetched.v.body))>>])
       ELSE Ok([contents |-> <<TextResourceContents(
                  "Error fetching resource: HTTP " \o ToString(fetched.v.status_code))>>])
  ELSE Ok([contents |-> <<TextResourceContents("Error fetching resource: " \o fetched.e)>>])

\* The result for what the HTTP request returned.
ReadFetched(uri, fetched) ==
  IF fetched.tag = "Ok"
  THEN IF fetched.v.status_code >= 200 /\ fetched.v.status_code < 300
       THEN Ok([contents |-> <<BlobResourceContents(uri, Base64Encode(fetched.v.body))>>])
       ELSE Ok([contents |-> <<TextResourceContents(
                  "Error fetching resource: HTTP " \o ToString(fetched.v.status_code))>>])
  ELSE Ok([contents |-> <<TextResourceContents("Error fetching resource: " \o fetched.e)>>])

\* Owned with the uri compared without regard to case.
OwnedIgnoreCase(uri) == StartsWith(ToAsciiLowercase(uri), UriPrefix)

\* Whether read_resource makes the HTTP request for a uri.
Owned(uri) == StartsWith(uri, UriPrefix)

\* The result, and the HTTP requests made for it, each with what it returned;
\* fetched is what the HTTP request returns if it is made.
read_resource(input, fetched) ==
  IF ~Owned(input.uri)
  THEN [result |-> Ok([contents |-> <<>>]), fetches |-> <<>>]
  ELSE [result |-> ReadFetched(input.uri, fetched),
        fetches |-> <<[url |-> input.uri, method |-> "GET", outcome |-> fetched]>>]

(***************************************************************************)
(* The wrapper plugin: call and describe.  The host function call_tool is  *)
(* a collaborator: it returns the result of the tool called, or fails.     *)
(***************************************************************************)
\* The request the wrapper sends to the host function.
CrossPluginRequest ==
  [name |-> "time::time", arguments |-> Some([name |-> JString("get_time_utc")])]

\* Content { text: Some(json.to_string()), type: Text, ..Default::default() }:
\* the text is kept as the JSON object it is written from.
JsonTextContent(json) == [type |-> "text", text |-> Some([json |-> json])]

\* The arm Ok(Json(result)) of the host call.
WrapOk(result) ==
  Ok([content |-> <<JsonTextContent([message |-> "Time retrieved via cross-plugin call",
                                     time_data |-> result.content,
                                     success |-> TRUE])>>,
      is_error |-> Some(FALSE)])

\* WrapErr with the flags of WrapOk.
WrapErrAsSuccess(e) ==
  Ok([content |-> <<JsonTextContent([message |-> "Failed to call time plugin",
                                     error |-> e,
                                     success |-> TRUE])>>,
      is_error |-> Some(FALSE)])

\* The arm Err(e) of the host call.
WrapErr(e) ==
  Ok([content |-> <<JsonTextContent([message |-> "Failed to call time plugin",
                                     error |-> e,
                                     success |-> FALSE])>>,
      is_error |-> Some(TRUE)])

\* GetWrappedTime with the host call made once more after a failure.
GetWrappedTimeRetrying(outcome) ==
  [result |-> IF outcome.tag = "Ok" THEN WrapOk(outcome.v) ELSE WrapErr(outcome.e),
   host_calls |-> IF outcome.tag = "Ok"
                  THEN <<[request |-> CrossPluginRequest, outcome |-> outcome]>>
                  ELSE <<[request |-> CrossPluginRequest, outcome |-> outcome],
                         [request |-> CrossPluginRequest, outcome |-> outcome]>>]

\* The arm "get_wrapped_time": one host call, and its outcome wrapped.
GetWrappedTime(outcome) ==
  [result |-> IF outcome.tag = "Ok" THEN WrapOk(outcome.v) ELSE WrapErr(outcome.e),
   host_calls |-> <<[request |-> CrossPluginRequest, outcome |-> outcome]>>]

\* args.get("name").unwrap().as_str().unwrap(): each unwrap panics on None.
OperationName(arguments) ==
  LET args == IF arguments.some THEN arguments.v ELSE EmptyMap
      name == Get(args, "name")
  IN  IF ~name.some THEN Panic
      ELSE IF ~AsStr(name.v).some THEN Panic
      ELSE Ok(AsStr(name.v).v)

\* The result, and the host calls made for it; outcome is what the host
\* function returns if it is called.
call(input, outcome) ==
  LET name == OperationName(input.arguments)
  IN  IF name.tag = "Panic" THEN [result |-> Panic, host_calls |-> <<>>]
      ELSE IF name.v = "get_wrapped_time" THEN GetWrappedTime(outcome)
      ELSE [result |-> Err("unknown command"), host_calls |-> <<>>]

describe ==
  Ok([tools |-> <<[name |-> "wrapper",
                   input_schema |-> [required |-> <<"name">>,
                                     properties |-> {"name"},
                                     enum |-> [name |-> {"get_wrapped_time"}]]]>>])

(***************************************************************************)
(* The requests the host sends: every map over the keys below with the     *)
(* values below.                                                           *)
(***************************************************************************)
\* All maps with a value of Vals[k] under each key k of some subset of Keys.
RECURSIVE MapsOver(_, _)
MapsOver(Keys, Vals) ==
  IF Keys = {} THEN {EmptyMap}
  ELSE LET k == CHOOSE x \in Keys : TRUE
           rest == MapsOver(Keys \ {k}, Vals)
       IN  rest \cup
           {[x \in DOMAIN m \cup {k} |-> IF x = k THEN v ELSE m[x]] : m \in rest, v \in Vals[k]}

RefValues ==
  [type |-> {JString("prompt"), JString("resource"), JString("Prompt"), JString("RESOURCE"),
             JString("ref/prompt"), JNumber(1), JNull, JBool(TRUE)},
   name |-> {JString(PromptName), JString("x"), JNumber(7)},
   title |-> {JString("Get Localized Time"), JNull, JNumber(3)},
   uri |-> {JString(UriTemplate), JString("https://example.com/{id}"), JBool(FALSE)}]

RefMaps == MapsOver({"type", "name", "title", "uri"}, RefValues)

ArgumentNames == {"timezone", "Timezone"}

Partials ==
  {"", "utc", "YORK", "los angeles", "Los_Angeles", "america", "europe/", "a",
   "nonexistent_tz"}

ToolNames == {"get_time", "parse_time", "unknown_tool", "Get_Time", "get_time_utc", ""}

PromptNames == {PromptName, "unknown_prompt", "Get_Time_With_Timezone", "get_time", ""}

ToolArgumentValues ==
  [timezone |-> {JString("UTC"), JString("America/New_York"), JString("Invalid/Timezone"),
                 JString(""), JNumber(5), JNull},
   time |-> {JString("29 Nov 2024 10:30:00 +0000"), JString("Fri, 29 Nov 2024 05:30:01 -0500"),
             JString("not a valid time"), JString(""), JNumber(1732876200), JBool(TRUE)}]

\* Option<Map<String, Value>>: the arguments of a tool or a prompt.
ToolArguments ==
  {None} \cup {Some(m) : m \in MapsOver({"timezone", "time"}, ToolArgumentValues)}

WrapperArgumentValues ==
  [name |-> {JString("get_wrapped_time"), JString("Get_Wrapped_Time"), JString("get_time_utc"),
             JString(""), JNumber(1), JNull},
   timezone |-> {JString("UTC")}]

WrapperArguments ==
  {None} \cup {Some(m) : m \in MapsOver({"name", "timezone"}, WrapperArgumentValues)}

\* What the host function call_tool returns: the called tool's result, with
\* its own is_error, or a failure of the call.
HostOutcomes ==
  {Ok([content |-> c, is_error |-> e]) :
     c \in {<<>>, <<[type |-> "text", text |-> Some("Fri, 29 Nov 2024 10:30:00 +0000")]>>,
            <<[type |-> "text", text |-> Some("unknown command")]>>},
     e \in {None, Some(FALSE), Some(TRUE)}}
  \cup {Err("plugin not found: time"), Err("serialization fault")}

Uris ==
  {UriPrefix \o "UTC", UriPrefix \o "America/New_York", UriPrefix, UriTemplate,
   "https://www.timezoneconverter.com/", "http://www.timezoneconverter.com/cgi-bin/zoneinfo?tz=UTC",
   "HTTPS://WWW.TIMEZONECONVERTER.COM/CGI-BIN/ZONEINFO?TZ=UTC", "file:///etc/passwd", ""}

StatusCodes == {100, 199, 200, 204, 299, 300, 304, 404, 500}

\* What the HTTP request returns.
FetchOutcomes ==
  {Ok([status_code |-> s, body |-> b]) : s \in StatusCodes, b \in Bodies}
  \cup {Err("connection refused"), Err("timed out")}

Cursors == {None, Some("page-2")}

ListKinds ==
  {"list_prompts", "list_resource_templates", "list_resources", "list_tools"}

(***************************************************************************)
(* The state machine.                                                      *)
(***************************************************************************)
NoRequest == [kind |-> "none"]

Requests ==
  {[kind |-> "call_tool", name |-> n, arguments |-> a] : n \in ToolNames, a \in ToolArguments}
  \cup {[kind |-> "get_prompt", name |-> n, arguments |-> a] :
          n \in PromptNames, a \in ToolArguments}
  \cup {[kind |-> "complete", ref |-> r, argument |-> [name |-> n, value |-> p]] :
          r \in RefMaps, n \in ArgumentNames, p \in Partials}
  \cup {[kind |-> "try_from", value |-> r] : r \in RefMaps}
  \cup {[kind |-> k, cursor |-> c] : k \in ListKinds, c \in Cursors}
  \cup {[kind |-> "on_roots_list_changed"]}
  \cup {[kind |-> "read_resource", uri |-> u] : u \in Uris}
  \cup {[kind |-> "call", arguments |-> a] : a \in WrapperArguments}
  \cup {[kind |-> "describe"]}

Init ==
  /\ request = NoRequest
  /\ response = Pending
  /\ hostCalls = <<>>
  /\ fetches = <<>>

\* The host sends a request to the plugin.
Submit ==
  /\ request = NoRequest
  /\ \E r \in Requests : request' = r
  /\ UNCHANGED <<response, hostCalls, fetches>>

Waiting(kind) == request.kind = kind /\ response = Pending

CallTool ==
  /\ Waiting("call_tool")
  /\ \E now \in Instants : response' = call_tool(request, now)
  /\ UNCHANGED <<request, hostCalls, fetches>>

Complete ==
  /\ Waiting("complete")
  /\ response' = complete(request)
  /\ UNCHANGED <<request, hostCalls, fetches>>

AnyReferenceTryFrom ==
  /\ Waiting("try_from")
  /\ response' = try_from(request.value)
  /\ UNCHANGED <<request, hostCalls, fetches>>

GetPrompt ==
  /\ Waiting("get_prompt")
  /\ response' = get_prompt(request)
  /\ UNCHANGED <<request, hostCalls, fetches>>

ListPrompts ==
  /\ Waiting("list_prompts")
  /\ response' = list_prompts
  /\ UNCHANGED <<request, hostCalls, fetches>>

ListResourceTemplates ==
  /\ Waiting("list_resource_templates")
  /\ response' = list_resource_templates
  /\ UNCHANGED <<request, hostCalls, fetches>>

ListResources ==
  /\ Waiting("list_resources")
  /\ response' = list_resources
  /\ UNCHANGED <<request, hostCalls, fetches>>

ListTools ==
  /\ Waiting("list_tools")
  /\ response' = list_tools
  /\ UNCHANGED <<request, hostCalls, fetches>>

OnRootsListChanged ==
  /\ Waiting("on_roots_list_changed")
  /\ response' = on_roots_list_changed
  /\ UNCHANGED <<request, hostCalls, fetches>>

ReadResource ==
  /\ Waiting("read_resource")
  /\ \E fetched \in FetchOutcomes :
       /\ response' = read_resource(request, fetched).result
       /\ fetches' = read_resource(request, fetched).fetches
  /\ UNCHANGED <<request, hostCalls>>

WrapperCall ==
  /\ Waiting("call")
  /\ \E outcome \in HostOutcomes :
       /\ response' = call(request, outcome).result
       /\ hostCalls' = call(request, outcome).host_calls
  /\ UNCHANGED <<request, fetches>>

WrapperDescribe ==
  /\ Waiting("describe")
  /\ response' = describe
  /\ UNCHANGED <<request, hostCalls, fetches>>

\* The host takes the response; nothing of the request is kept.
Deliver ==
  /\ response # Pending
  /\ request' = NoRequest
  /\ response' = Pending
  /\ hostCalls' = <<>>
  /\ fetches' = <<>>

Next ==
  \/ Submit
  \/ CallTool
  \/ Complete
  \/ AnyReferenceTryFrom
  \/ GetPrompt
  \/ ListPrompts
  \/ ListResourceTemplates
  \/ ListResources
  \/ ListTools
  \/ OnRootsListChanged
  \/ ReadResource
  \/ WrapperCall
  \/ WrapperDescribe
  \/ Deliver

Spec == Init /\ [][Next]_vars

(***************************************************************************)
(* The properties.                                                         *)
(***************************************************************************)
\* The entry point of that kind has run for the request in flight.
Served(kind) == request.kind = kind /\ response # Pending

\* A wrapper request that reached the host function, and what that returned.
WrapperCalledHost == Served("call") /\ hostCalls # <<>>

HostOutcome == hostCalls[1].outcome

\* The JSON object in the text of the wrapper result's only content block.
Payload(r) == r.v.content[1].text.v.json

\* C1: every result of complete holds at most 100 values, and its has_more
\* is set and says whether its total is greater than the number of values.
C1_CompletionInvariant ==
  (Served("complete") /\ response.tag = "Ok") =>
    LET c == response.v.completion
    IN  /\ Len(c.values) <= 100
        /\ c.total.some
        /\ c.has_more = Some(c.total.v > Len(c.values))

\* C1 happens: a completion for the argument timezone with more matches than
\* fit, and one with fewer.
C1_Witness ==
  /\ Served("complete") /\ response.tag = "Ok"
  /\ request.argument.name = "timezone"
  /\ Len(response.v.completion.values) = 100
  /\ response.v.completion.total.v > 100
  /\ response.v.completion.has_more = Some(TRUE)

\* C2: when the host function returns a result whose is_error is true, the
\* wrapper's result shows that failure: its own is_error is true or the
\* success flag of its payload is false.
C2_ToolFailurePreserved ==
  (WrapperCalledHost /\ HostOutcome.tag = "Ok" /\ HostOutcome.v.is_error = Some(TRUE)) =>
    /\ response.tag = "Ok"
    /\ response.v.is_error = Some(TRUE) \/ Payload(response).success = FALSE

\* A wrapper result that signals success: is_error is not true, or the payload
\* says success.
SignalsSuccess(r) ==
  r.tag = "Ok" /\ (r.v.is_error # Some(TRUE) \/ Payload(r).success = TRUE)

\* A wrapper outcome that reports a failure of the host call: no result at
\* all, or the payload of a failed call.
ReportsCallFailure(r) ==
  \/ r.tag # "Ok"
  \/ "error" \in DOMAIN Payload(r)
  \/ Payload(r).message = "Failed to call time plugin"

\* C3: a failure of the host call never becomes a wrapper result that signals
\* success, and a result the host call returned is never reported as a failure
\* of the call.
C3_ChannelsKeptApart ==
  WrapperCalledHost =>
    /\ HostOutcome.tag = "Err" => ~SignalsSuccess(response)
    /\ HostOutcome.tag = "Ok" => ~ReportsCallFailure(response)

\* C3 happens: the host call failed and the wrapper answered.
C3_Witness ==
  /\ WrapperCalledHost /\ HostOutcome.tag = "Err"
  /\ response.tag = "Ok" /\ response.v.is_error = Some(TRUE)
  /\ Payload(response).success = FALSE

\* C4: a failure of the host call is an error of the wrapper's own dispatch,
\* never a result (with is_error true or not).
C4_CallFailureIsFatal ==
  (WrapperCalledHost /\ HostOutcome.tag = "Err") => response.tag = "Err"

\* The operation a wrapper request names, when its argument name is a string.
NamesOperation(req) ==
  /\ req.arguments.some
  /\ "name" \in DOMAIN req.arguments.v
  /\ req.arguments.v["name"].t = "String"

\* C5: a call-tool request for a name outside the known ones fails with the
\* not-found error of the plugin (rstime's names the tool), whatever its
\* arguments are, and in the wrapper without any host call.
C5_UnknownNameIsFatal ==
  /\ (Served("call_tool") /\ request.name \notin {"get_time", "parse_time"}) =>
       response = Err("Unknown tool: " \o request.name)
  /\ (Served("call") /\ NamesOperation(request)
        /\ request.arguments.v["name"].s # "get_wrapped_time") =>
       response = Err("unknown command") /\ hostCalls = <<>>

\* C5 happens: an unknown tool called with arguments, answered by an error.
C5_Witness ==
  /\ Served("call_tool") /\ request.name = "Get_Time"
  /\ request.arguments.some /\ DOMAIN request.arguments.v = {"timezone", "time"}
  /\ response.tag = "Err"

\* The value of an argument is absent or is no string.
NoStrArgument(arguments, key) ==
  \/ ~arguments.some
  \/ key \notin DOMAIN arguments.v
  \/ arguments.v[key].t # "String"

\* The argument is a string, one of those given.
StrArgumentIn(arguments, key, strings) ==
  ~NoStrArgument(arguments, key) /\ arguments.v[key].s \in strings

SoftError(r) == r.tag = "Ok" /\ r.v.is_error = Some(TRUE)

\* C6: a known capability called with its required argument missing, of the
\* wrong type or unparsable answers with a result whose is_error is true:
\* parse_time and time, get_time and a timezone that is no zone, the wrapper
\* and name.
C6_InvalidArgumentIsSoft ==
  /\ (Served("call_tool") /\ request.name = "parse_time"
        /\ \/ NoStrArgument(request.arguments, "time")
           \/ StrArgumentIn(request.arguments, "time", {"not a valid time", ""})) =>
       SoftError(response)
  /\ (Served("call_tool") /\ request.name = "get_time"
        /\ StrArgumentIn(request.arguments, "timezone", {"Invalid/Timezone", ""})) =>
       SoftError(response)
  /\ (Served("call") /\ NoStrArgument(request.arguments, "name")) => SoftError(response)

\* C7: get_prompt fails with the not-found error for every name but
\* get_time_with_timezone, and answers that name with at least one message.
C7_GetPromptRouting ==
  Served("get_prompt") =>
    IF request.name = "get_time_with_timezone"
    THEN response.tag = "Ok" /\ Len(response.v.messages) >= 1
    ELSE response = Err("Prompt not found: " \o request.name)

\* C7 happens: the prompt asked for with a timezone that is no zone.
C7_Witness ==
  /\ Served("get_prompt") /\ request.name = "get_time_with_timezone"
  /\ StrArgumentIn(request.arguments, "timezone", {"Invalid/Timezone"})
  /\ response.tag = "Ok" /\ Len(response.v.messages) = 1

\* The type tag of a reference map is that string.
TypeIs(value, type) == "type" \in DOMAIN value /\ value["type"] = JString(type)

\* The reference was resolved to that variant.
ResolvedTo(r, variant) == r.tag = "Ok" /\ r.v.variant = variant

\* C8 as stated: a map tagged prompt always resolves to the Prompt variant and
\* a map tagged resource to the Resource variant, whatever else it holds.
C8_TagAlwaysResolves ==
  Served("try_from") =>
    /\ TypeIs(request.value, "prompt") => ResolvedTo(response, "Prompt")
    /\ TypeIs(request.value, "resource") => ResolvedTo(response, "Resource")

\* The map has the fields of a PromptReference: a string name and, if any, a
\* title that is a string or null.
FitsPrompt(value) ==
  /\ "name" \in DOMAIN value /\ value["name"].t = "String"
  /\ "title" \in DOMAIN value => value["title"].t \in {"String", "Null"}

\* The map has the field of a ResourceTemplateReference: a string uri.
FitsResource(value) == "uri" \in DOMAIN value /\ value["uri"].t = "String"

\* C8 amended: a map tagged prompt resolves to the Prompt variant, with its
\* name, if it has the fields of a PromptReference, and fails otherwise; a map
\* tagged resource resolves to the Resource variant, with its uri, if it has a
\* string uri, and fails otherwise.  Neither ever resolves to the other
\* variant, whatever fields of the other variant it holds.
C8_TagResolvesWhenFit ==
  Served("try_from") =>
    /\ TypeIs(request.value, "prompt") =>
         IF FitsPrompt(request.value)
         THEN ResolvedTo(response, "Prompt")
                /\ response.v.ref.name = request.value["name"].s
         ELSE response.tag = "Err"
    /\ TypeIs(request.value, "resource") =>
         IF FitsResource(request.value)
         THEN ResolvedTo(response, "Resource")
                /\ response.v.ref.uri = request.value["uri"].s
         ELSE response.tag = "Err"

\* C8 happens: a map tagged prompt that also holds a uri resolves to Prompt.
C8_Witness ==
  /\ Served("try_from") /\ TypeIs(request.value, "prompt")
  /\ DOMAIN request.value = {"type", "name", "title", "uri"}
  /\ ResolvedTo(response, "Prompt")

\* C9: a map whose type is absent or is no string fails with the error of the
\* missing discriminant, whatever else it holds.
C9_MissingDiscriminant ==
  (Served("try_from")
     /\ ("type" \notin DOMAIN request.value \/ request.value["type"].t # "String")) =>
    response = Err("Missing or invalid 'type' field in reference")

\* C9 happens: a map with a number for its type and the fields of both variants.
C9_Witness ==
  /\ Served("try_from")
  /\ DOMAIN request.value = {"type", "name", "title", "uri"}
  /\ request.value["type"].t = "Number"
  /\ FitsPrompt(request.value) /\ FitsResource(request.value)
  /\ response.tag = "Err"

\* C10: a map whose type is a string other than prompt and resource fails with
\* the unknown-variant error, which carries that string, whatever else it holds.
C10_UnknownVariant ==
  (Served("try_from")
     /\ "type" \in DOMAIN request.value /\ request.value["type"].t = "String"
     /\ request.value["type"].s \notin {"prompt", "resource"}) =>
    response = Err("Unknown reference type: " \o request.value["type"].s)

\* C10 happens: the tag Prompt, in the wrong case, on a map that has the
\* fields of a PromptReference.
C10_Witness ==
  /\ Served("try_from") /\ TypeIs(request.value, "Prompt")
  /\ FitsPrompt(request.value)
  /\ response = Err("Unknown reference type: Prompt")

\* The Reference values: a Prompt with a name and, or not, a title, and a
\* ResourceTemplate with a uri.
References ==
  {AnyReferencePrompt([name |-> n, title |-> t, type |-> "prompt"]) :
     n \in {PromptName, "x"}, t \in {None, Some("Get Localized Time")}}
  \cup {AnyReferenceResource([type |-> "resource", uri |-> u]) :
          u \in {UriTemplate, "https://example.com/{id}"}}

\* The maps a Reference is encoded to.
Encodings(reference) ==
  IF reference.variant = "Prompt"
  THEN {PromptReferenceToValue(reference.ref, skip_none) : skip_none \in BOOLEAN}
  ELSE {ResourceTemplateReferenceToValue(reference.ref)}

\* C11: resolving the map a Reference is encoded to yields that Reference: the
\* same variant with the same name and title, or the same uri.
C11_RoundTrip ==
  Served("try_from") =>
    \A reference \in References :
      request.value \in Encodings(reference) => response = Ok(reference)

\* C11 happens: the encoding of a Prompt with a title was resolved to it.
C11_Witness ==
  /\ Served("try_from")
  /\ request.value \in Encodings(AnyReferencePrompt(
        [name |-> "x", title |-> Some("Get Localized Time"), type |-> "prompt"]))
  /\ ResolvedTo(response, "Prompt")
  /\ response.v.ref.title = Some("Get Localized Time")

\* complete returned a completion result for a request with that argument
\* name and that partial input.
Completed(name, partial) ==
  /\ Served("complete") /\ response.tag = "Ok"
  /\ request.argument.name = name /\ request.argument.value = partial

\* C12: a completion result for the empty partial input has the size of the
\* whole corpus for its total.
C12_EmptyPartialCountsAll ==
  Completed(request.argument.name, "") =>
    response.v.completion.total = Some(Len(TZ_VARIANTS))

\* C12 happens: a ResourceTemplate reference completed for the empty partial.
C12_Witness ==
  /\ Completed("timezone", "") /\ TypeIs(request.ref, "resource")
  /\ response.v.completion.total = Some(Len(TZ_VARIANTS))

\* The places in the corpus of the names whose lower-cased form contains the
\* partial, lower-cased and with an underscore for each space.
MatchesOf ==
  [partial \in Partials |->
     {i \in 1..Len(TZ_VARIANTS) :
        Contains(LowercaseNames[i], Replace(ToAsciiLowercase(partial), " ", "_"))}]

\* The elements of a sequence.
Range(seq) == {seq[i] : i \in 1..Len(seq)}

\* C13: the candidates counted are exactly those whose lower-cased name
\* contains the partial after lower-casing it and replacing each space by an
\* underscore; the values are among them, and are all of them when they are
\* no more than 100.  So los angeles finds America/Los_Angeles and YORK finds
\* America/New_York.
C13_MatchingIgnoresCaseAndSpaces ==
  Completed(request.argument.name, request.argument.value) =>
    LET partial == request.argument.value
        values == Range(response.v.completion.values)
        names == {TZ_VARIANTS[i] : i \in MatchesOf[partial]}
    IN  /\ response.v.completion.total = Some(Cardinality(MatchesOf[partial]))
        /\ values \subseteq names
        /\ Cardinality(names) <= Cap => values = names
        /\ partial = "los angeles" => "America/Los_Angeles" \in values
        /\ partial = "YORK" => "America/New_York" \in values

\* C13 happens: the partial los angeles, with its space, found a name.
C13_Witness ==
  /\ Completed("timezone", "los angeles")
  /\ "America/Los_Angeles" \in Range(response.v.completion.values)

\* The request of the scenario: a Prompt reference of that name, the argument
\* timezone and that partial.
ScenarioRequest(name, partial) ==
  /\ Served("complete")
  /\ request.ref \in Encodings(AnyReferencePrompt([name |-> name, title |-> None, type |-> "prompt"]))
  /\ request.argument = [name |-> "timezone", value |-> partial]

\* The completion result has those values, that has_more and that total.
CompletionIs(r, length, has_more, total) ==
  /\ r.tag = "Ok"
  /\ Len(r.v.completion.values) = length
  /\ r.v.completion.has_more = Some(has_more)
  /\ r.v.completion.total = Some(total)

\* C14 as stated: completing the empty partial for the Prompt reference x
\* returns 100 values, has_more true and the total 596.
C14_ScenarioForPromptX ==
  ScenarioRequest("x", "") => CompletionIs(response, 100, TRUE, 596)

\* C14 amended: completing the empty partial for the Prompt reference
\* get_time_with_timezone returns 100 values, has_more true and the total 596;
\* for the Prompt reference x it fails, as for every prompt that is not it.
C14_ScenarioForKnownPrompt ==
  /\ ScenarioRequest(PromptName, "") => CompletionIs(response, 100, TRUE, 596)
  /\ ScenarioRequest("x", "") =>
       response = Err("Completion for prompt not implemented: x")

\* C14 happens: the scenario ran for the known prompt.
C14_Witness ==
  ScenarioRequest(PromptName, "") /\ CompletionIs(response, 100, TRUE, 596)

\* C15 as stated: the partial utc returns the values UTC and nothing else,
\* the total 1 and has_more false.
C15_UtcFindsOnlyUtc ==
  Completed("timezone", "utc") =>
    /\ response.v.completion.values = <<"UTC">>
    /\ CompletionIs(response, 1, FALSE, 1)

\* C15 amended: the partial utc returns every name that contains it, Etc/UTC
\* and UTC in the order of the corpus, the total 2 and has_more false.
C15_UtcFindsEveryUtc ==
  Completed("timezone", "utc") =>
    /\ response.v.completion.values = <<"Etc/UTC", "UTC">>
    /\ CompletionIs(response, 2, FALSE, 2)

\* C15 happens: utc was completed and UTC is among the values.
C15_Witness ==
  /\ Completed("timezone", "utc")
  /\ "UTC" \in Range(response.v.completion.values)
  /\ Len(response.v.completion.values) = 2

\* The reference map is a Prompt reference of another prompt.
OtherPrompt(value) ==
  TypeIs(value, "prompt") /\ FitsPrompt(value) /\ value["name"].s # "get_time_with_timezone"

\* The reference map is a ResourceTemplate reference of another template.
OtherTemplate(value) ==
  /\ TypeIs(value, "resource") /\ FitsResource(value)
  /\ value["uri"].s # "https://www.timezoneconverter.com/cgi-bin/zoneinfo?tz={timezone}"

\* The reference map is a reference of the plugin's prompt or template.
KnownTarget(value) ==
  \/ TypeIs(value, "prompt") /\ FitsPrompt(value) /\ ~OtherPrompt(value)
  \/ TypeIs(value, "resource") /\ FitsResource(value) /\ ~OtherTemplate(value)

\* C16: complete fails with the not-implemented error, which names what is
\* not implemented, for a reference of another prompt, for a reference of
\* another template, and for a known reference with an argument other than
\* timezone; with any of the three it never returns a completion result.
C16_OtherTargetNotImplemented ==
  Served("complete") =>
    /\ OtherPrompt(request.ref) =>
         response = Err("Completion for prompt not implemented: " \o request.ref["name"].s)
    /\ OtherTemplate(request.ref) =>
         response = Err("Completion for resource not implemented: " \o request.ref["uri"].s)
    /\ (KnownTarget(request.ref) /\ request.argument.name # "timezone") =>
         response = Err("Completion for argument not implemented: " \o request.argument.name)
    /\ request.argument.name # "timezone" => response.tag = "Err"

\* C16 happens: the argument Timezone, in the wrong case, of the known template.
C16_Witness ==
  /\ Served("complete") /\ KnownTarget(request.ref) /\ TypeIs(request.ref, "resource")
  /\ request.argument.name = "Timezone"
  /\ response = Err("Completion for argument not implemented: Timezone")

\* The uri starts with the address of the plugin's resource.
UnderTemplate(uri) ==
  StartsWith(uri, "https://www.timezoneconverter.com/cgi-bin/zoneinfo?tz=")

\* C17: reading a uri that is not the plugin's returns a result with no
\* contents, not an error, and makes no HTTP request.
C17_ForeignUriReadsEmpty ==
  (Served("read_resource") /\ ~UnderTemplate(request.uri)) =>
    response = Ok([contents |-> <<>>]) /\ fetches = <<>>

\* C17 happens: the plugin's address in upper case is not the plugin's.
C17_Witness ==
  /\ Served("read_resource")
  /\ request.uri = "HTTPS://WWW.TIMEZONECONVERTER.COM/CGI-BIN/ZONEINFO?TZ=UTC"
  /\ response = Ok([contents |-> <<>>]) /\ fetches = <<>>

\* A read of the plugin's resource made its HTTP request; what that returned.
Fetched == Served("read_resource") /\ fetches # <<>>

FetchOutcome == fetches[1].outcome

\* The HTTP request returned a status from 200 to 299.
FetchSucceeded ==
  /\ FetchOutcome.tag = "Ok"
  /\ FetchOutcome.v.status_code >= 200 /\ FetchOutcome.v.status_code < 300

\* The content entry is text, or a blob.
IsText(entry) == "text" \in DOMAIN entry /\ "blob" \notin DOMAIN entry

IsBlob(entry) == "blob" \in DOMAIN entry /\ "text" \notin DOMAIN entry

\* C18: read_resource returns a result for every uri and every outcome of
\* the HTTP request; when the request fails or returns a status outside
\* 200..299 the result holds one entry, a text that tells the failure or the
\* status.
C18_ReadNeverRaises ==
  Served("read_resource") =>
    /\ response.tag = "Ok"
    /\ (Fetched /\ ~FetchSucceeded) =>
         /\ Len(response.v.contents) = 1
         /\ IsText(response.v.contents[1])
         /\ response.v.contents[1].text =
              "Error fetching resource: " \o
                (IF FetchOutcome.tag = "Ok"
                 THEN "HTTP " \o ToString(FetchOutcome.v.status_code)
                 ELSE FetchOutcome.e)

\* C18 happens: the HTTP request failed and the read returned a text.
C18_Witness ==
  /\ Fetched /\ FetchOutcome = Err("connection refused")
  /\ response.tag = "Ok"
  /\ response.v.contents[1].text = "Error fetching resource: connection refused"

\* C19: a read of the plugin's resource returns a blob, tagged with a MIME
\* type, exactly when the HTTP request returned a status from 200 to 299, and
\* a text for every other status and for a failure of the request.
C19_BlobIffSuccess ==
  (Served("read_resource") /\ UnderTemplate(request.uri)) =>
    /\ Fetched /\ response.tag = "Ok" /\ Len(response.v.contents) = 1
    /\ IF FetchSucceeded
       THEN IsBlob(response.v.contents[1]) /\ response.v.contents[1].mime_type.some
       ELSE IsText(response.v.contents[1])

\* C19 happens: the status 299, the last success, returned a blob.
C19_Witness ==
  /\ Fetched /\ FetchOutcome.tag = "Ok" /\ FetchOutcome.v.status_code = 299
  /\ response.tag = "Ok" /\ IsBlob(response.v.contents[1])

\* The content block is a text that says something: the wrapper's text is
\* optional and holds a JSON object with a message, rstime's is a string.
SaysSomething(block) ==
  /\ block.type = "text"
  /\ IF request.kind = "call"
     THEN block.text.some /\ "message" \in DOMAIN block.text.v.json
     ELSE block.text # ""

\* C20: a result of rstime's call_tool or of the wrapper's call that carries
\* is_error = true holds at least one text content block.
C20_SoftErrorIsExplained ==
  ((Served("call_tool") \/ Served("call")) /\ SoftError(response)) =>
    \E i \in 1..Len(response.v.content) : SaysSomething(response.v.content[i])

\* C20 happens: get_time for a zone that is none returned is_error = true.
C20_Witness ==
  /\ Served("call_tool") /\ request.name = "get_time"
  /\ StrArgumentIn(request.arguments, "timezone", {"Invalid/Timezone"})
  /\ SoftError(response) /\ Len(response.v.content) = 1

\* The names of the entries of a catalog, in its order.
NamesOf(entries) == [i \in 1..Len(entries) |-> entries[i].name]

\* The result carries no cursor to a next page.
NoCursor(result) == "next_cursor" \in DOMAIN result => result.next_cursor = None

\* C21: each listing operation succeeds, for every cursor of the request and
\* after every sequence of requests, with the same whole catalog and no
\* cursor: the tools get_time then parse_time, the one prompt, the one
\* resource template, no resources; no name comes twice.
C21_ListingsAreFixed ==
  /\ Served("list_tools") =>
       /\ response.tag = "Ok" /\ NoCursor(response.v)
       /\ NamesOf(response.v.tools) = <<"get_time", "parse_time">>
  /\ Served("list_prompts") =>
       /\ response.tag = "Ok" /\ NoCursor(response.v)
       /\ NamesOf(response.v.prompts) = <<"get_time_with_timezone">>
  /\ Served("list_resource_templates") =>
       /\ response.tag = "Ok" /\ NoCursor(response.v)
       /\ NamesOf(response.v.resource_templates) = <<"time_zone_converter">>
  /\ Served("list_resources") =>
       /\ response.tag = "Ok" /\ NoCursor(response.v)
       /\ response.v.resources = <<>>

\* C21 happens: list_tools asked for a second page returned the two tools.
C21_Witness ==
  /\ Served("list_tools") /\ request.cursor = Some("page-2")
  /\ response.tag = "Ok" /\ Len(response.v.tools) = 2

\* The matching names of a partial, in the order of the corpus.
MatchSeq ==
  [partial \in Partials |->
     LET places == SelectSeq([i \in 1..Len(TZ_VARIANTS) |-> i],
                             LAMBDA i : i \in MatchesOf[partial])
     IN  [k \in 1..Len(places) |-> TZ_VARIANTS[places[k]]]]

Min(a, b) == IF a < b THEN a ELSE b

\* C22: the values of a completion result are the first min(100, total)
\* matching names in the order of the corpus, and total is the number of all
\* matching names, those past the hundredth included; no match gives no
\* values, the total 0 and has_more false.
C22_ValuesArePrefixOfMatches ==
  Completed(request.argument.name, request.argument.value) =>
    LET all == MatchSeq[request.argument.value]
        completion == response.v.completion
    IN  /\ completion.total = Some(Len(all))
        /\ completion.values = SubSeq(all, 1, Min(100, Len(all)))
        /\ Len(all) = 0 => completion.has_more = Some(FALSE)

\* C22 happens: more than 100 names match america, and 100 were returned.
C22_Witness ==
  /\ Completed("timezone", "america")
  /\ response.v.completion.total.v > 100
  /\ Len(response.v.completion.values) = 100
  /\ response.v.completion.values[1] = "America/Adak"

\* The operation a wrapper request names is that one.
WrapperOperationIs(name) ==
  StrArgumentIn(request.arguments, "name", {name})

\* C23: the wrapper's call for get_wrapped_time invokes the host function
\* once, also when it fails, for the tool time::time, and its result is made
\* from what that invocation returned; for every other request the host
\* function is not invoked.
C23_OneHostCall ==
  Served("call") =>
    IF WrapperOperationIs("get_wrapped_time")
    THEN /\ Len(hostCalls) = 1
         /\ hostCalls[1].request.name = "time::time"
         /\ response.tag = "Ok"
         /\ IF HostOutcome.tag = "Ok"
            THEN Payload(response).time_data = HostOutcome.v.content
            ELSE Payload(response).error = HostOutcome.e
    ELSE hostCalls = <<>>

\* C23 happens: the host call failed and was made once.
C23_Witness ==
  /\ Served("call") /\ WrapperOperationIs("get_wrapped_time")
  /\ Len(hostCalls) = 1 /\ HostOutcome.tag = "Err"

\* The names list_tools and list_prompts advertise.
AdvertisedTools == {list_tools.v.tools[i].name : i \in 1..Len(list_tools.v.tools)}

AdvertisedPrompts == {list_prompts.v.prompts[i].name : i \in 1..Len(list_prompts.v.prompts)}

\* C24: call_tool answers with the not-found error exactly for the names
\* list_tools does not advertise, and get_prompt exactly for the names
\* list_prompts does not advertise.
C24_CatalogAgreesWithDispatch ==
  /\ Served("call_tool") =>
       (response = Err("Unknown tool: " \o request.name) <=> request.name \notin AdvertisedTools)
  /\ Served("get_prompt") =>
       (response = Err("Prompt not found: " \o request.name)
          <=> request.name \notin AdvertisedPrompts)

\* C24 happens: parse_time, the second tool of the catalog, was routed.
C24_Witness ==
  /\ Served("call_tool") /\ request.name = "parse_time"
  /\ request.name \in AdvertisedTools /\ response.tag = "Ok"

\* The key the output schema of that tool in list_tools requires.
RequiredKeys(name) ==
  LET tool == CHOOSE t \in Range(list_tools.v.tools) : t.name = name
  IN  Range(tool.output_schema.v.required.v)

\* C25: a result of call_tool either carries is_error = true and no
\* structured content, or no is_error and a structured content with the keys
\* the output schema of its tool requires (current_time for get_time,
\* timestamp for parse_time); its content is never empty.
C25_ResultShape ==
  (Served("call_tool") /\ response.tag = "Ok") =>
    /\ Len(response.v.content) > 0
    /\ \/ response.v.is_error = Some(TRUE) /\ response.v.structured_content = None
       \/ /\ response.v.is_error = None
          /\ response.v.structured_content.some
          /\ RequiredKeys(request.name) \subseteq DOMAIN response.v.structured_content.v
          /\ RequiredKeys(request.name) =
               (IF request.name = "get_time" THEN {"current_time"} ELSE {"timestamp"})

\* C25 happens: parse_time returned a timestamp.
C25_Witness ==
  /\ Served("call_tool") /\ request.name = "parse_time"
  /\ response.tag = "Ok" /\ response.v.is_error = None
  /\ response.v.structured_content = Some([timestamp |-> JNumber(1732876200)])

\* The string is the name of a zone.
KnownZone(s) == \E i \in 1..Len(TZ_VARIANTS) : TZ_VARIANTS[i] = s

\* The text ends with the offset of UTC.
EndsInUtcOffset(text) == Len(text) >= 5 /\ SubSeq(text, Len(text) - 4, Len(text)) = "+0000"

\* C26: get_time and the prompt get_time_with_timezone take a timezone that is
\* absent or is no string for UTC and answer without an error, and answer with
\* the invalid-timezone text exactly for a string that names no zone.
C26_TimezoneDefaultsToUtc ==
  /\ (Served("call_tool") /\ request.name = "get_time") =>
       /\ NoStrArgument(request.arguments, "timezone") =>
            /\ response.tag = "Ok" /\ response.v.is_error = None
            /\ EndsInUtcOffset(response.v.content[1].text)
       /\ SoftError(response) <=>
            /\ ~NoStrArgument(request.arguments, "timezone")
            /\ ~KnownZone(request.arguments.v["timezone"].s)
  /\ (Served("get_prompt") /\ request.name = "get_time_with_timezone") =>
       /\ response.tag = "Ok"
       /\ NoStrArgument(request.arguments, "timezone") =>
            response.v.description = Some("Information for UTC")
       /\ response.v.description = None <=>
            /\ ~NoStrArgument(request.arguments, "timezone")
            /\ ~KnownZone(request.arguments.v["timezone"].s)

\* C26 happens: get_time with a number for its timezone answered for UTC.
C26_Witness ==
  /\ Served("call_tool") /\ request.name = "get_time"
  /\ request.arguments.some /\ "timezone" \in DOMAIN request.arguments.v
  /\ request.arguments.v["timezone"] = JNumber(5)
  /\ response.tag = "Ok" /\ response.v.is_error = None
  /\ EndsInUtcOffset(response.v.content[1].text)
====
